---------------------------- MODULE Spec2Model ----------------------------
(***************************************************************************)
(* A model of the two notebooks of ntoane/CNN_ASL.                         *)
(*                                                                         *)
(*   Asl_a_cnn.ipynb             Part A: load, preprocess, train           *)
(*   Asl_b_c_augment_pred.ipynb  Part B: load, preprocess, augment,        *)
(*                                       train, save                       *)
(*                               Part C: load the saved model, inference   *)
(*                                                                         *)
(* A notebook is a kernel namespace (the variables below) and a list of    *)
(* code cells.  One action models one code cell, executed as a whole;      *)
(* model.fit on the generator is the exception, it is modelled step by     *)
(* step and epoch by epoch.  A notebook is executed in one of two ways.    *)
(* Interactively (cell = 0) a cell may be executed whenever every data     *)
(* name it reads is bound, in any order and any number of times.  With     *)
(* Run All (cell > 0) the cells are executed from the first to the last    *)
(* in a fresh kernel, cell being the number of the next one, and the run   *)
(* halts at the first cell that raises.  A cell that raises (a file that   *)
(* cannot be read, a KeyError, a ValueError of reshape, an IndexError of   *)
(* to_categorical) keeps the assignments made before the raising           *)
(* statement and makes none after it.  Imports and function definitions    *)
(* hold no data and are taken as executed.  predict_letter is modelled     *)
(* statement by statement.                                                 *)
(*                                                                         *)
(* An ndarray is a record [shape, buf, den]: buf names the flat buffer in  *)
(* row-major order, which holds integer numerators, and the value of       *)
(* element i is Data(a)[i] / den.  Dividing an array by 255 multiplies     *)
(* den by 255; reshape keeps the buffer.  The buffer of a pixel matrix is  *)
(* named by the file it was read from, and its elements are computed from  *)
(* that file; the buffer of a small array is given literally.  Values are  *)
(* exact rationals: the element type of an array (int64 and float64 on     *)
(* the training side, float32 after img_to_array) and its rounding are     *)
(* not part of the model.                                                  *)
(***************************************************************************)
EXTENDS Integers, Sequences, FiniteSets, TLC

\* Program constants.
NumClasses == 24
ImgSide == 28
PixelScale == 255
Epochs == 20
BatchSize == 32
TrainSize == 27455

\* Bounds of the model.
MaxDivisions == 2
MaxRank == 3
MaxSeed == 2
MaxWeight == 2

ImgSize == ImgSide * ImgSide

(***************************************************************************)
(* The environment: the two CSV files and the image files.                 *)
(*                                                                         *)
(* A CSV file is a header row (label, pixel1 .. pixel<len>) and one row    *)
(* per sample.                                                             *)
(***************************************************************************)
\* The intensity (0..255) at flat position i of the sample with seed s:
\* seed 0 is a blank sample, seed 1 a saturated one.
Pixel(s, i) ==
    IF s = 0 THEN 0
    ELSE IF s = 1 THEN PixelScale
    ELSE (s * 41 + i * 7) % (PixelScale + 1)

\* Labels out of range a CSV file may hold in its first row.
LabelChoices == {-25, -1, 24}

\* The label of row r: the first row holds lab, the others stay in range
\* and run through all the classes.
RowLabel(lab, r) == IF r = 1 THEN lab ELSE (lab + 7 * (r - 1)) % NumClasses

Dataset(n, m, len, seed, lab, vlab) ==
    [n |-> n, m |-> m, len |-> len, seed |-> seed, lab |-> lab, vlab |-> vlab]

Datasets ==
    {Dataset(2, 1, ImgSize, s, 8, 9) : s \in 0..MaxSeed}
    \cup {Dataset(1, 1, ImgSize, 0, l, 23) : l \in LabelChoices}
    \cup {Dataset(1, 1, ImgSize, 0, 0, 24)}
    \cup {Dataset(NumClasses + 1, 1, ImgSize, 2, 0, 0)}
    \cup {Dataset(2, 1, ImgSize \div 2, 0, 0, 0),
          Dataset(1, 1, ImgSize - 1, 0, 0, 0)}

ImageFile(ok, side, seed) == [ok |-> ok, side |-> side, seed |-> seed]

NoFile == ImageFile(FALSE, 0, 0)

\* A missing file, rasters of the training format, a larger raster.
Files ==
    {NoFile}
    \cup {ImageFile(TRUE, ImgSide, s) : s \in 0..MaxSeed}
    \cup {ImageFile(TRUE, 2 * ImgSide, 2)}

\* data/asl_images/b.png, the file the cells of Part C read.
FileB == ImageFile(TRUE, 2 * ImgSide, 2)

(***************************************************************************)
(* Buffers.                                                                *)
(***************************************************************************)
Buf(kind, lit, rows, len, seed, lab, withLabel) ==
    [kind |-> kind, lit |-> lit, rows |-> rows, len |-> len, seed |-> seed,
     lab |-> lab, withLabel |-> withLabel]

\* A buffer given element by element.
Lit(seq) == Buf("lit", seq, 0, 0, 0, 0, FALSE)

\* The nearest-neighbour source coordinate of target coordinate i when a
\* raster of the given side is resampled to ImgSide.
SourceIndex(i, side) == ((2 * i + 1) * side) \div (2 * ImgSide)

Width(b) == b.len + (IF b.withLabel THEN 1 ELSE 0)

Elem(b, i) ==
    CASE b.kind = "lit" -> b.lit[i]
      [] b.kind = "csv" ->
            LET r == ((i - 1) \div Width(b)) + 1
                c == (i - 1) % Width(b)
            IN IF b.withLabel
               THEN IF c = 0 THEN RowLabel(b.lab, r)
                    ELSE Pixel(b.seed + r - 1, c)
               ELSE Pixel(b.seed + r - 1, c + 1)
      [] b.kind = "img" ->
            LET r == SourceIndex((i - 1) \div ImgSide, b.rows)
                c == SourceIndex((i - 1) % ImgSide, b.rows)
            IN Pixel(b.seed, r * b.rows + c + 1)

(***************************************************************************)
(* ndarrays.                                                               *)
(***************************************************************************)
RECURSIVE Prod(_)
Prod(s) == IF s = <<>> THEN 1 ELSE Head(s) * Prod(Tail(s))

RECURSIVE Pow(_, _)
Pow(b, k) == IF k = 0 THEN 1 ELSE b * Pow(b, k - 1)

Arr(shape, buf, den) == [shape |-> shape, buf |-> buf, den |-> den]

NoArr == Arr(<<0>>, Lit(<<>>), 1)

Rank(a) == Len(a.shape)

LastDim(a) == a.shape[Len(a.shape)]

Size(a) == Prod(a.shape)

\* The numerator of element i (1-based, row-major), and all of them.
At(a, i) == Elem(a.buf, i)

Data(a) == [i \in 1..Size(a) |-> At(a, i)]

\* A division by 25 instead of 255.
DivBy25(a, k) == Arr(a.shape, a.buf, a.den * (k \div 10))

\* numpy: a / k, elementwise true division.
Div(a, k) == Arr(a.shape, a.buf, a.den * k)

\* numpy reshape with at most one -1 in the requested shape: the -1 is
\* inferred from the total size; ValueError when the sizes do not agree.
Known(shp) == Prod([i \in 1..Len(shp) |-> IF shp[i] = -1 THEN 1 ELSE shp[i]])

HasInferred(shp) == \E i \in 1..Len(shp) : shp[i] = -1

ReshapeOk(a, shp) ==
    IF HasInferred(shp)
    THEN Known(shp) > 0 /\ Size(a) % Known(shp) = 0
    ELSE Size(a) = Known(shp)

Reshape(a, shp) ==
    Arr([i \in 1..Len(shp) |->
            IF shp[i] = -1 THEN Size(a) \div Known(shp) ELSE shp[i]],
        a.buf, a.den)

\* An argmax that returns the last index that holds the maximum.
ArgMaxLast(a) ==
    CHOOSE i \in 0..(Size(a) - 1) :
        /\ \A j \in 0..(Size(a) - 1) : At(a, j + 1) <= At(a, i + 1)
        /\ \A j \in (i + 1)..(Size(a) - 1) : At(a, j + 1) < At(a, i + 1)

\* numpy argmax over the flattened array: the first index (0-based) that
\* holds the maximum.
ArgMax(a) ==
    CHOOSE i \in 0..(Size(a) - 1) :
        /\ \A j \in 0..(Size(a) - 1) : At(a, j + 1) <= At(a, i + 1)
        /\ \A j \in 0..(i - 1) : At(a, j + 1) < At(a, i + 1)

(***************************************************************************)
(* keras.utils.to_categorical(y, num_classes).                             *)
(*   y = np.array(y, dtype='int'); a trailing dimension of 1 is dropped;   *)
(*   y = y.ravel(); categorical = zeros((n, num_classes));                 *)
(*   categorical[arange(n), y] = 1      (IndexError outside [-nc, nc-1],   *)
(*                                       a negative index counts from the  *)
(*                                       end);                             *)
(*   reshaped to input_shape + (num_classes,).                             *)
(***************************************************************************)
CatInShape(y) ==
    IF Rank(y) > 1 /\ LastDim(y) = 1 THEN SubSeq(y.shape, 1, Rank(y) - 1)
    ELSE y.shape

CatOk(y, nc) == \A i \in 1..Size(y) : At(y, i) >= -nc /\ At(y, i) < nc

CatIndex(v, nc) == IF v < 0 THEN v + nc ELSE v

\* A to_categorical that sets the indicator one position too far.
ToCategoricalShifted(y, nc) ==
    Arr(Append(CatInShape(y), nc),
        Lit([k \in 1..(Size(y) * nc) |->
                IF CatIndex(At(y, ((k - 1) \div nc) + 1), nc) = (k - 2) % nc
                THEN 1 ELSE 0]),
        1)

ToCategorical(y, nc) ==
    Arr(Append(CatInShape(y), nc),
        Lit([k \in 1..(Size(y) * nc) |->
                IF CatIndex(At(y, ((k - 1) \div nc) + 1), nc) = (k - 1) % nc
                THEN 1 ELSE 0]),
        1)

(***************************************************************************)
(* pandas.                                                                 *)
(***************************************************************************)
\* A DataFrame read from a CSV file: whether it still has its label
\* column, and the file's content.
DataFrame(hasLabel, rows, len, seed, lab) ==
    [hasLabel |-> hasLabel, rows |-> rows, len |-> len, seed |-> seed,
     lab |-> lab]

NoFrame == DataFrame(FALSE, 0, 0, 0, 0)

\* pd.read_csv of the training and of the validation file.
TrainCsv(d) == DataFrame(TRUE, d.n, d.len, d.seed, d.lab)
ValidCsv(d) == DataFrame(TRUE, d.m, d.len, d.seed + d.n, d.vlab)

\* df['label']: the label column as a one-dimensional array.
LabelColumn(df) ==
    Arr(<<df.rows>>, Lit([r \in 1..df.rows |-> RowLabel(df.lab, r)]), 1)

\* A deletion that leaves the frame as it was.
DelLabelKept(df) == df

\* del df['label']
DelLabel(df) == [df EXCEPT !.hasLabel = FALSE]

\* df.values: the matrix of all the columns the frame still has, the
\* label column first while it has not been deleted.
Values(df) ==
    Arr(<<df.rows, df.len + (IF df.hasLabel THEN 1 ELSE 0)>>,
        Buf("csv", <<>>, df.rows, df.len, df.seed, df.lab, df.hasLabel),
        1)

(***************************************************************************)
(* keras.preprocessing.image.                                              *)
(***************************************************************************)
\* image_utils.load_img(path, color_mode="grayscale", target_size=(28,28)):
\* the raster resampled to 28 x 28; a PIL image, modelled as a
\* two-dimensional array of integers.
LoadImg(f) ==
    Arr(<<ImgSide, ImgSide>>, Buf("img", <<>>, f.side, f.side, f.seed, 0, FALSE), 1)

\* image_utils.img_to_array(image): a PIL image or a two-dimensional array
\* gets a channel axis, a three-dimensional array is kept; ValueError for
\* any other rank.
ImgToArrayOk(a) == Rank(a) \in {2, 3}

ImgToArray(a) == IF Rank(a) = 2 THEN Arr(Append(a.shape, 1), a.buf, a.den) ELSE a

(***************************************************************************)
(* The network.  Its forward pass and its training are the framework's;    *)
(* the notebooks fix the shape of the input and the width of the output    *)
(* layer.  The learned parameters are an index w into a family of          *)
(* behaviours: random initialisation, shuffling and dropout make them a    *)
(* choice of the run.                                                      *)
(***************************************************************************)
Weights == 0..MaxWeight

Net(w, compiled, epochs) == [w |-> w, compiled |-> compiled, epochs |-> epochs]

NoNet == Net(0, FALSE, 0)

InputShape == <<ImgSide, ImgSide, 1>>

\* The shape of a batch of n images, and of n one-hot labels.
Images(n) == <<n>> \o InputShape
OneHots(n) == <<n, NumClasses>>

IsImages(a) == Rank(a) = 4 /\ a.shape[1] >= 1 /\ a.shape = Images(a.shape[1])

\* The layers of a Sequential model, as the notebooks add them: what of a
\* layer decides the shape of its output.  A Dropout keeps its rate in
\* tenths.
Layer(kind, units, size, strides, padding) ==
    [kind |-> kind, units |-> units, size |-> size, strides |-> strides,
     padding |-> padding]

Conv2D(filters, size, strides, padding) ==
    Layer("Conv2D", filters, size, strides, padding)

BatchNormalization == Layer("BatchNormalization", 0, 0, 0, "")

MaxPool2D(size, strides, padding) ==
    Layer("MaxPool2D", 0, size, strides, padding)

Dropout(tenths) == Layer("Dropout", tenths, 0, 0, "")

Flatten == Layer("Flatten", 0, 0, 0, "")

Dense(units) == Layer("Dense", units, 0, 0, "")

\* The model of Part A.
StackA ==
    << Conv2D(75, 3, 1, "same"),
       BatchNormalization,
       MaxPool2D(2, 2, "same"),
       Conv2D(50, 3, 1, "same"),
       Dropout(2),
       BatchNormalization,
       MaxPool2D(2, 2, "same"),
       Conv2D(25, 3, 1, "same"),
       BatchNormalization,
       MaxPool2D(2, 2, "same"),
       Flatten,
       Dense(512),
       Dropout(3),
       Dense(NumClasses) >>

\* The model of Part B.
StackB ==
    << Conv2D(75, 3, 1, "same"),
       BatchNormalization,
       MaxPool2D(2, 2, "same"),
       Conv2D(50, 3, 1, "same"),
       Dropout(2),
       BatchNormalization,
       MaxPool2D(2, 2, "same"),
       Conv2D(25, 3, 1, "same"),
       BatchNormalization,
       MaxPool2D(2, 2, "same"),
       Flatten,
       Dense(512),
       Dropout(3),
       Dense(NumClasses) >>

\* A same padding that drops the window that does not fit.
ConvOutFloor(n, size, strides, padding) ==
    IF padding = "same" THEN n \div strides
    ELSE (n - size) \div strides + 1

\* The length of one spatial axis after a convolution or a pooling: with
\* same padding the input is padded so that every stride has its window.
ConvOut(n, size, strides, padding) ==
    IF padding = "same" THEN (n + strides - 1) \div strides
    ELSE (n - size) \div strides + 1

\* The shape a layer gives to a batch of shape s.
LayerOut(l, s) ==
    CASE l.kind = "Conv2D" ->
            <<s[1], ConvOut(s[2], l.size, l.strides, l.padding),
              ConvOut(s[3], l.size, l.strides, l.padding), l.units>>
      [] l.kind = "MaxPool2D" ->
            <<s[1], ConvOut(s[2], l.size, l.strides, l.padding),
              ConvOut(s[3], l.size, l.strides, l.padding), s[4]>>
      [] l.kind = "Flatten" -> <<s[1], Prod(Tail(s))>>
      [] l.kind = "Dense" -> SubSeq(s, 1, Len(s) - 1) \o <<l.units>>
      [] OTHER -> s

\* The shapes of a batch after each layer of a model, in order.
RECURSIVE OutShapes(_, _)
OutShapes(stack, s) ==
    IF stack = <<>> THEN <<>>
    ELSE <<LayerOut(Head(stack), s)>>
         \o OutShapes(Tail(stack), LayerOut(Head(stack), s))

\* model.predict(x) for a batch of one image: a vector of NumClasses
\* probabilities Data[k] / den that sum to 1.  w = 0 is a degenerate
\* network (all classes equally likely), an odd w one with a single
\* most likely class, an even w one with two equally likely classes; which
\* classes depends on the image, its scale included.
Digest(x) == At(x, 1) + At(x, ImgSize \div 2) + At(x, ImgSize) + (x.den % 7)

Peak1(w, x) == (Digest(x) + w) % NumClasses

Peak2(w, x) ==
    IF w % 2 = 0 THEN (Digest(x) + 5 * w + 3) % NumClasses ELSE Peak1(w, x)

\* A network whose output layer has one unit per letter of the full
\* alphabet, the last one the most likely.
ForwardWide(w, x) ==
    Arr(<<1, NumClasses + 2>>,
        Lit([k \in 1..(NumClasses + 2) |-> IF k = NumClasses + 2 THEN 2 ELSE 1]),
        NumClasses + 3)

Forward(w, x) ==
    IF w = 0
    THEN Arr(<<1, NumClasses>>, Lit([k \in 1..NumClasses |-> 1]), NumClasses)
    ELSE Arr(<<1, NumClasses>>,
             Lit([k \in 1..NumClasses |->
                     1 + (IF k - 1 = Peak1(w, x) THEN 12 ELSE 0)
                       + (IF k - 1 = Peak2(w, x) THEN 12 ELSE 0)]),
             2 * NumClasses)

\* An alphabet string that keeps the letter j.
AlphabetWithJ ==
    <<"a", "b", "c", "d", "e", "f", "g", "h", "i", "j", "k", "l", "m", "n",
      "o", "p", "q", "r", "s", "t", "u", "v", "w", "x">>

\* alphabet = "abcdefghiklmnopqrstuvwxy", a character per position.
Alphabet ==
    <<"a", "b", "c", "d", "e", "f", "g", "h", "i", "k", "l", "m", "n", "o",
      "p", "q", "r", "s", "t", "u", "v", "w", "x", "y">>

(***************************************************************************)
(* The kernel namespace, the disk, and the call of predict_letter that is  *)
(* in progress.                                                            *)
(***************************************************************************)
VARIABLES
    ds,         \* the CSV files on disk
    bound,      \* the data names bound in the kernel namespace
    train_df, valid_df,
    x_train, x_valid, y_train, y_valid,
    model,
    fitted,     \* the images the last fit trained on: <<shape, den>>
    artifact,   \* the directory asl_model on disk: <<>> or <<a network>>
    image, image_is_pil, prediction, alphabet,
    pc,         \* the statement a call in progress is at (predict_letter,
                \* model.fit), "idle" outside a call
    p_file, p_image, p_prediction, p_result,
    datagen,    \* the ImageDataGenerator: whether datagen.fit has run
    img_iter,   \* the iterator datagen.flow returned
    batch_x,    \* the number of images of x, the batch img_iter.next() gave
    fit,        \* the loop of model.fit: epoch, step, images of this epoch
    history,    \* what model.fit returned
    cell        \* Run All: the number of the next cell; 0 when cells are
                \* executed by hand

data_vars == <<train_df, valid_df, x_train, x_valid, y_train, y_valid>>

infer_vars == <<image, image_is_pil, prediction, alphabet>>

call_vars == <<pc, p_file, p_image, p_prediction, p_result>>

train_vars == <<datagen, img_iter, batch_x, fit, history>>

vars ==
    <<ds, bound, data_vars, model, fitted, artifact, infer_vars, call_vars,
      train_vars, cell>>

\* The generator, the iterator, the loop and the history before they exist.
NoGen == [fit |-> FALSE]

NoIter == [n |-> 0, x_shape |-> <<>>, y_shape |-> <<>>, den |-> 1]

\* The keys of history.history: the loss and the metric of compile, and
\* both again for the validation data.
Metrics == {"loss", "accuracy", "val_loss", "val_accuracy"}

ValMetrics == {"val_loss", "val_accuracy"}

\* A log holds, for every key, the epochs (counted from 1) whose value it
\* has, in the order they were appended.
EmptyLog == [k \in Metrics |-> <<>>]

\* A training in progress: the epochs completed, the steps and the images
\* of the current epoch, len(x_train), the steps and images of the last
\* completed epoch, the evaluations made on the validation data, the log.
NoFit ==
    [epoch |-> 0, step |-> 0, images |-> 0, len |-> 0, last |-> <<0, 0>>,
     evals |-> 0, log |-> EmptyLog]

NoHistory == [epochs |-> 0, steps |-> 0, images |-> 0, log |-> EmptyLog]

InitKernel ==
    /\ bound = {}
    /\ train_df = NoFrame
    /\ valid_df = NoFrame
    /\ x_train = NoArr
    /\ x_valid = NoArr
    /\ y_train = NoArr
    /\ y_valid = NoArr
    /\ model = NoNet
    /\ fitted = <<<<>>, 0>>
    /\ image = NoArr
    /\ image_is_pil = FALSE
    /\ prediction = NoArr
    /\ alphabet = <<>>
    /\ pc = "idle"
    /\ p_file = NoFile
    /\ p_image = NoArr
    /\ p_prediction = NoArr
    /\ p_result = ""
    /\ datagen = NoGen
    /\ img_iter = NoIter
    /\ batch_x = 0
    /\ fit = NoFit
    /\ history = NoHistory

\* Cells executed by hand run in any order (cell = 0).  Run All executes
\* cell 1, 2, ... of the notebook in turn and stops at the first cell that
\* raises.
Halted == -1

AtCell(k) == cell = 0 \/ cell = k

Then(k, ok) == IF cell = 0 THEN 0 ELSE IF ok THEN k + 1 ELSE Halted

Bind(cond, name) == IF cond THEN {name} ELSE {}

(***************************************************************************)
(* Part A, one action per code cell.                                       *)
(***************************************************************************)
\* train_df = pd.read_csv(...); valid_df = pd.read_csv(...)
A_ReadCsv ==
    /\ AtCell(1)
    /\ pc = "idle"
    /\ \E okT, okV \in BOOLEAN :
        /\ train_df' = IF okT THEN TrainCsv(ds) ELSE train_df
        /\ valid_df' = IF okT /\ okV THEN ValidCsv(ds) ELSE valid_df
        /\ bound' = bound \cup Bind(okT, "train_df")
                          \cup Bind(okT /\ okV, "valid_df")
        /\ cell' = Then(1, okT /\ okV)
    /\ UNCHANGED <<ds, train_vars,
                   x_train, x_valid, y_train, y_valid, model, fitted,
                   artifact, infer_vars, call_vars>>

\* y_train = train_df['label']; y_valid = valid_df['label'];
\* del train_df['label']; del valid_df['label']
A_ExtractLabels ==
    /\ AtCell(2)
    /\ pc = "idle"
    /\ {"train_df", "valid_df"} \subseteq bound
    /\ LET s1 == train_df.hasLabel
           s2 == s1 /\ valid_df.hasLabel
       IN /\ y_train' = IF s1 THEN LabelColumn(train_df) ELSE y_train
          /\ y_valid' = IF s2 THEN LabelColumn(valid_df) ELSE y_valid
          /\ train_df' = IF s2 THEN DelLabel(train_df) ELSE train_df
          /\ valid_df' = IF s2 THEN DelLabel(valid_df) ELSE valid_df
          /\ bound' = bound \cup Bind(s1, "y_train") \cup Bind(s2, "y_valid")
          /\ cell' = Then(2, s2)
    /\ UNCHANGED <<ds, train_vars,
                   x_train, x_valid, model, fitted, artifact, infer_vars,
                   call_vars>>

\* x_train = train_df.values; x_valid = valid_df.values
A_ExtractImages ==
    /\ AtCell(3)
    /\ pc = "idle"
    /\ {"train_df", "valid_df"} \subseteq bound
    /\ x_train' = Values(train_df)
    /\ x_valid' = Values(valid_df)
    /\ bound' = bound \cup {"x_train", "x_valid"}
    /\ cell' = Then(3, TRUE)
    /\ UNCHANGED <<ds, train_vars,
                   train_df, valid_df, y_train, y_valid, model, fitted,
                   artifact, infer_vars, call_vars>>

\* x_train = x_train / 255; x_valid = x_valid / 255
A_Normalize ==
    /\ AtCell(4)
    /\ pc = "idle"
    /\ {"x_train", "x_valid"} \subseteq bound
    /\ x_train.den < Pow(PixelScale, MaxDivisions)
    /\ x_valid.den < Pow(PixelScale, MaxDivisions)
    /\ x_train' = Div(x_train, PixelScale)
    /\ x_valid' = Div(x_valid, PixelScale)
    /\ cell' = Then(4, TRUE)
    /\ UNCHANGED <<ds, train_vars,
                   bound, train_df, valid_df, y_train, y_valid, model,
                   fitted, artifact, infer_vars, call_vars>>

\* num_classes = 24
\* if not y_train.shape[-1] == 24:
\*     y_train = keras.utils.to_categorical(y_train, num_classes)
\*     y_valid = keras.utils.to_categorical(y_valid, num_classes)
A_Encode ==
    /\ AtCell(5)
    /\ pc = "idle"
    /\ {"y_train", "y_valid"} \subseteq bound
    /\ Rank(y_train) < MaxRank
    /\ Rank(y_valid) < MaxRank
    /\ LET go == ~(LastDim(y_train) = 24)
           s1 == go /\ CatOk(y_train, NumClasses)
           s2 == s1 /\ CatOk(y_valid, NumClasses)
       IN /\ y_train' = IF s1 THEN ToCategorical(y_train, NumClasses)
                        ELSE y_train
          /\ y_valid' = IF s2 THEN ToCategorical(y_valid, NumClasses)
                        ELSE y_valid
          /\ cell' = Then(5, ~go \/ s2)
    /\ bound' = bound \cup {"num_classes"}
    /\ UNCHANGED <<ds, train_vars,
                   train_df, valid_df, x_train, x_valid, model, fitted,
                   artifact, infer_vars, call_vars>>

\* x_train = x_train.reshape(-1,28,28,1); x_valid = x_valid.reshape(-1,28,28,1)
A_Reshape ==
    /\ AtCell(6)
    /\ pc = "idle"
    /\ {"x_train", "x_valid"} \subseteq bound
    /\ LET shp == <<-1>> \o InputShape
           s1 == ReshapeOk(x_train, shp)
           s2 == s1 /\ ReshapeOk(x_valid, shp)
       IN /\ x_train' = IF s1 THEN Reshape(x_train, shp) ELSE x_train
          /\ x_valid' = IF s2 THEN Reshape(x_valid, shp) ELSE x_valid
          /\ cell' = Then(6, s2)
    /\ UNCHANGED <<ds, train_vars,
                   bound, train_df, valid_df, y_train, y_valid, model,
                   fitted, artifact, infer_vars, call_vars>>

\* num_classes = 24; model = Sequential(); model.add(...) ...
A_ModelDef ==
    /\ AtCell(7)
    /\ pc = "idle"
    /\ \E w \in Weights : model' = Net(w, FALSE, 0)
    /\ bound' = bound \cup {"num_classes", "model"}
    /\ cell' = Then(7, TRUE)
    /\ UNCHANGED <<ds, train_vars,
                   data_vars, fitted, artifact, infer_vars, call_vars>>

\* model.compile(loss="categorical_crossentropy", metrics=["accuracy"])
A_Compile ==
    /\ AtCell(8)
    /\ pc = "idle"
    /\ "model" \in bound
    /\ model' = [model EXCEPT !.compiled = TRUE]
    /\ cell' = Then(8, TRUE)
    /\ UNCHANGED <<ds, train_vars,
                   bound, data_vars, fitted, artifact, infer_vars, call_vars>>

\* history = model.fit(x_train, y_train, epochs=20, verbose=1,
\*                     validation_data=(x_valid, y_valid))
\* RuntimeError for a model that is not compiled; ValueError for training
\* data of another shape than the network's, before any update; the
\* validation data is first evaluated at the end of the first epoch.
FitOk(x, y) == IsImages(x) /\ y.shape = OneHots(x.shape[1])

A_Fit ==
    /\ AtCell(9)
    /\ pc = "idle"
    /\ {"model", "x_train", "y_train", "x_valid", "y_valid"} \subseteq bound
    /\ IF model.compiled /\ FitOk(x_train, y_train)
       THEN /\ \E w \in Weights :
                model' = Net(w, TRUE,
                             IF FitOk(x_valid, y_valid) THEN Epochs ELSE 0)
            /\ bound' = bound \cup Bind(FitOk(x_valid, y_valid), "history")
            /\ fitted' = <<x_train.shape, x_train.den>>
       ELSE UNCHANGED <<model, bound, fitted>>
    /\ cell' = Then(9, model.compiled /\ FitOk(x_train, y_train) /\ FitOk(x_valid, y_valid))
    /\ UNCHANGED <<ds, train_vars, data_vars, artifact, infer_vars, call_vars>>

NextA ==
    \/ A_ReadCsv
    \/ A_ExtractLabels
    \/ A_ExtractImages
    \/ A_Normalize
    \/ A_Encode
    \/ A_Reshape
    \/ A_ModelDef
    \/ A_Compile
    \/ A_Fit

InitA ==
    /\ ds \in Datasets
    /\ artifact = <<>>
    /\ InitKernel
    /\ cell = 0

SpecA == InitA /\ [][NextA]_vars

(***************************************************************************)
(* Part B, one action per code cell.                                       *)
(***************************************************************************)
\* The data cell: read both files, separate the labels, take the pixel
\* matrices, one-hot encode, normalize, reshape.  Stop(okT, okV) is the
\* number of the first statement that raises, 16 when none does.
B_Shape == <<-1>> \o InputShape

B_Stop(okT, okV) ==
    LET d == ds
    IN IF ~okT THEN 1
       ELSE IF ~okV THEN 2
       ELSE IF ~CatOk(LabelColumn(TrainCsv(d)), NumClasses) THEN 10
       ELSE IF ~CatOk(LabelColumn(ValidCsv(d)), NumClasses) THEN 11
       ELSE IF ~ReshapeOk(Values(DelLabel(TrainCsv(d))), B_Shape) THEN 14
       ELSE IF ~ReshapeOk(Values(DelLabel(ValidCsv(d))), B_Shape) THEN 15
       ELSE 16

\* The value of x_train or x_valid when the cell stops, for a frame whose
\* label column has been deleted; normalize and reshape are the numbers of
\* the statements that normalize and reshape it.
B_Pixels(df, stop, normalize, reshape) ==
    IF stop > reshape THEN Reshape(Div(Values(df), PixelScale), B_Shape)
    ELSE IF stop > normalize THEN Div(Values(df), PixelScale)
    ELSE Values(df)

B_Labels(df, stop, encode) ==
    IF stop > encode THEN ToCategorical(LabelColumn(df), NumClasses)
    ELSE LabelColumn(df)

B_Data ==
    /\ AtCell(1)
    /\ pc = "idle"
    /\ \E okT, okV \in BOOLEAN :
        LET stop == B_Stop(okT, okV)
        IN /\ train_df' = IF stop > 5 THEN DelLabel(TrainCsv(ds))
                          ELSE IF stop > 1 THEN TrainCsv(ds) ELSE train_df
           /\ valid_df' = IF stop > 6 THEN DelLabel(ValidCsv(ds))
                          ELSE IF stop > 2 THEN ValidCsv(ds) ELSE valid_df
           /\ y_train' = IF stop > 3
                         THEN B_Labels(TrainCsv(ds), stop, 10) ELSE y_train
           /\ y_valid' = IF stop > 4
                         THEN B_Labels(ValidCsv(ds), stop, 11) ELSE y_valid
           /\ x_train' = IF stop > 7
                         THEN B_Pixels(DelLabel(TrainCsv(ds)), stop, 12, 14)
                         ELSE x_train
           /\ x_valid' = IF stop > 8
                         THEN B_Pixels(DelLabel(ValidCsv(ds)), stop, 13, 15)
                         ELSE x_valid
           /\ bound' = bound \cup Bind(stop > 1, "train_df")
                             \cup Bind(stop > 2, "valid_df")
                             \cup Bind(stop > 3, "y_train")
                             \cup Bind(stop > 4, "y_valid")
                             \cup Bind(stop > 7, "x_train")
                             \cup Bind(stop > 8, "x_valid")
                             \cup Bind(stop > 9, "num_classes")
           /\ cell' = Then(1, stop = 16)
    /\ UNCHANGED <<ds, train_vars,
                   model, fitted, artifact, infer_vars, call_vars>>

\* model = Sequential(); model.add(...) ...;
\* model.add(Dense(units=num_classes, activation="softmax"))
B_ModelDef ==
    /\ AtCell(2)
    /\ pc = "idle"
    /\ "num_classes" \in bound
    /\ \E w \in Weights : model' = Net(w, FALSE, 0)
    /\ bound' = bound \cup {"model"}
    /\ cell' = Then(2, TRUE)
    /\ UNCHANGED <<ds, train_vars,
                   data_vars, fitted, artifact, infer_vars, call_vars>>

\* A save that writes the network as it was built, without what it learned.
B_SaveUntrained ==
    /\ AtCell(8)
    /\ pc = "idle"
    /\ "model" \in bound
    /\ artifact' = <<Net(0, FALSE, 0)>>
    /\ cell' = Then(8, TRUE)
    /\ UNCHANGED <<ds, train_vars,
                   bound, data_vars, model, fitted, infer_vars, call_vars>>

\* A save cell placed before the cell that trains.
B_SaveBeforeFit ==
    /\ AtCell(7)
    /\ pc = "idle"
    /\ "model" \in bound
    /\ artifact' = <<model>>
    /\ cell' = Then(7, TRUE)
    /\ UNCHANGED <<ds, train_vars,
                   bound, data_vars, model, fitted, infer_vars, call_vars>>

\* model.save('asl_model')
B_Save ==
    /\ AtCell(8)
    /\ pc = "idle"
    /\ "model" \in bound
    /\ artifact' = <<model>>
    /\ cell' = Then(8, TRUE)
    /\ UNCHANGED <<ds, train_vars,
                   bound, data_vars, model, fitted, infer_vars, call_vars>>

NextB ==
    \/ B_Data
    \/ B_ModelDef
    \/ B_Save

InitB ==
    /\ ds \in Datasets
    /\ artifact = <<>>
    /\ InitKernel
    /\ cell = 0

SpecB == InitB /\ [][NextB]_vars

(***************************************************************************)
(* Part B, the cells that augment and train.                               *)
(***************************************************************************)
\* datagen = ImageDataGenerator(rotation_range=10, zoom_range=0.1,
\*     width_shift_range=0.1, height_shift_range=0.1, horizontal_flip=True,
\*     vertical_flip=False)
T_Datagen ==
    /\ AtCell(3)
    /\ pc = "idle"
    /\ datagen' = NoGen
    /\ bound' = bound \cup {"datagen"}
    /\ cell' = Then(3, TRUE)
    /\ UNCHANGED <<ds, data_vars, model, fitted, artifact, infer_vars,
                   call_vars, img_iter, batch_x, fit, history>>

\* datagen.flow(x, y, batch_size): ValueError unless x has rank 4 and as
\* many samples as y.
FlowOk(x, y) == Rank(x) = 4 /\ y.shape[1] = x.shape[1]

\* The iterator runs through its n samples in batches of BatchSize, the
\* last one of a pass shorter when BatchSize does not divide n, and starts
\* over: it never ends.  Batches(n) is the number of batches of a pass,
\* BatchLen(i, n) the number of images of batch i (counted from 0).
Batches(n) == (n + BatchSize - 1) \div BatchSize

BatchLen(i, n) ==
    IF i % Batches(n) < Batches(n) - 1 THEN BatchSize
    ELSE n - (Batches(n) - 1) * BatchSize

\* batch_size = 32
\* img_iter = datagen.flow(x_train, y_train, batch_size=batch_size)
\* x, y = img_iter.next()
\* for i in range(batch_size): image = x[i]; ...imshow(np.squeeze(image))
\* IndexError when the batch has fewer than batch_size images.  The
\* augmented image left in image is some image of the data's scale.
T_Flow ==
    /\ AtCell(4)
    /\ pc = "idle"
    /\ {"datagen", "x_train", "y_train"} \subseteq bound
    /\ IF FlowOk(x_train, y_train)
       THEN /\ img_iter' = [n |-> x_train.shape[1],
                            x_shape |-> Tail(x_train.shape),
                            y_shape |-> Tail(y_train.shape),
                            den |-> x_train.den]
            /\ batch_x' = BatchLen(0, x_train.shape[1])
            /\ \E s \in 0..MaxSeed :
                  image' = Arr(Tail(x_train.shape),
                               Buf("img", <<>>, ImgSide, ImgSide, s, 0, FALSE),
                               x_train.den)
            /\ image_is_pil' = FALSE
            /\ bound' = bound \cup {"batch_size", "img_iter", "x", "y", "image"}
            /\ cell' = Then(4, BatchLen(0, x_train.shape[1]) >= BatchSize)
       ELSE /\ bound' = bound \cup {"batch_size"}
            /\ cell' = Then(4, FALSE)
            /\ UNCHANGED <<img_iter, batch_x, image, image_is_pil>>
    /\ UNCHANGED <<ds, data_vars, model, fitted, artifact, prediction,
                   alphabet, call_vars, datagen, fit, history>>

\* datagen.fit(x_train): ValueError unless x_train has rank 4.  The
\* generator enables no feature-wise statistic, so nothing is computed.
T_DatagenFit ==
    /\ AtCell(5)
    /\ pc = "idle"
    /\ {"datagen", "x_train"} \subseteq bound
    /\ datagen' = IF Rank(x_train) = 4 THEN [fit |-> TRUE] ELSE datagen
    /\ cell' = Then(5, Rank(x_train) = 4)
    /\ UNCHANGED <<ds, bound, data_vars, model, fitted, artifact, infer_vars,
                   call_vars, img_iter, batch_x, fit, history>>

\* model.compile(loss='categorical_crossentropy', metrics=['accuracy'])
T_Compile ==
    /\ AtCell(6)
    /\ pc = "idle"
    /\ "model" \in bound
    /\ model' = [model EXCEPT !.compiled = TRUE]
    /\ cell' = Then(6, TRUE)
    /\ UNCHANGED <<ds, bound, data_vars, fitted, artifact, infer_vars,
                   call_vars, train_vars>>

\* history = model.fit(img_iter, epochs=20,
\*                     steps_per_epoch=len(x_train)/batch_size,
\*                     validation_data=(x_valid, y_valid))
\* The call: the arguments are evaluated; RuntimeError for a model that is
\* not compiled.
T_Fit ==
    /\ AtCell(7)
    /\ pc = "idle"
    /\ {"model", "img_iter", "x_train", "batch_size", "x_valid", "y_valid"}
          \subseteq bound
    /\ IF model.compiled
       THEN /\ pc' = "fit"
            /\ fit' = [NoFit EXCEPT !.len = x_train.shape[1]]
            /\ model' = [model EXCEPT !.epochs = 0]
            /\ UNCHANGED cell
       ELSE /\ cell' = Then(7, FALSE)
            /\ UNCHANGED <<pc, fit, model>>
    /\ UNCHANGED <<ds, bound, data_vars, fitted, artifact, infer_vars, p_file,
                   p_image, p_prediction, p_result, datagen, img_iter,
                   batch_x, history>>

\* An epoch of len // batch_size steps.
MoreStepsFloor(step, len) == step < len \div BatchSize

\* steps_per_epoch = len(x_train)/batch_size is a true division: the loop
\* of an epoch runs while step < steps_per_epoch.
MoreSteps(step, len) == step * BatchSize < len

\* steps_per_epoch=len(x_train)/batch_size: a true division, kept as the
\* pair of its numerator and denominator.
StepsPerEpoch(len) == <<len, BatchSize>>

\* A training step that takes the iterator's batch index for the step of
\* the epoch.
T_FitStepCyclic ==
    /\ pc = "fit"
    /\ fit.epoch < Epochs
    /\ MoreSteps(fit.step, fit.len)
    /\ IF img_iter.x_shape = InputShape /\ img_iter.y_shape = <<NumClasses>>
       THEN /\ fit' = [fit EXCEPT !.step = (@ + 1) % Batches(img_iter.n),
                                  !.images = BatchLen(fit.step, img_iter.n)]
            /\ fitted' = <<<<img_iter.n>> \o img_iter.x_shape, img_iter.den>>
            /\ UNCHANGED <<pc, cell>>
       ELSE /\ pc' = "idle"
            /\ cell' = Then(7, FALSE)
            /\ UNCHANGED <<fit, fitted>>
    /\ UNCHANGED <<ds, bound, data_vars, model, artifact, infer_vars, p_file,
                   p_image, p_prediction, p_result, datagen, img_iter,
                   batch_x, history>>

\* One training step: the next batch of the iterator; ValueError for a
\* batch the network does not take.
T_FitStep ==
    /\ pc = "fit"
    /\ fit.epoch < Epochs
    /\ MoreSteps(fit.step, fit.len)
    /\ IF img_iter.x_shape = InputShape /\ img_iter.y_shape = <<NumClasses>>
       THEN /\ fit' = [fit EXCEPT !.step = @ + 1,
                                  !.images = @ + BatchLen(fit.step, img_iter.n)]
            /\ fitted' = <<<<img_iter.n>> \o img_iter.x_shape, img_iter.den>>
            /\ UNCHANGED <<pc, cell>>
       ELSE /\ pc' = "idle"
            /\ cell' = Then(7, FALSE)
            /\ UNCHANGED <<fit, fitted>>
    /\ UNCHANGED <<ds, bound, data_vars, model, artifact, infer_vars, p_file,
                   p_image, p_prediction, p_result, datagen, img_iter,
                   batch_x, history>>

\* An end of epoch that evaluates the validation data every second epoch.
T_FitEpochEndAlternate ==
    /\ pc = "fit"
    /\ fit.epoch < Epochs
    /\ ~MoreSteps(fit.step, fit.len)
    /\ IF FitOk(x_valid, y_valid)
       THEN /\ fit' = [fit EXCEPT !.epoch = @ + 1, !.step = 0, !.images = 0,
                                  !.last = <<fit.step, fit.images>>,
                                  !.evals = @ + (fit.epoch % 2),
                                  !.log = [k \in Metrics |->
                                              IF k \in ValMetrics
                                                 /\ fit.epoch % 2 = 0
                                              THEN @[k]
                                              ELSE Append(@[k], fit.epoch + 1)]]
            /\ \E w \in Weights : model' = Net(w, TRUE, fit.epoch + 1)
            /\ UNCHANGED <<pc, cell>>
       ELSE /\ pc' = "idle"
            /\ cell' = Then(7, FALSE)
            /\ UNCHANGED <<fit, model>>
    /\ UNCHANGED <<ds, bound, data_vars, fitted, artifact, infer_vars, p_file,
                   p_image, p_prediction, p_result, datagen, img_iter,
                   batch_x, history>>

\* The end of an epoch: the validation data is evaluated (ValueError for
\* data the network does not take), the epoch is recorded.
T_FitEpochEnd ==
    /\ pc = "fit"
    /\ fit.epoch < Epochs
    /\ ~MoreSteps(fit.step, fit.len)
    /\ IF FitOk(x_valid, y_valid)
       THEN /\ fit' = [fit EXCEPT !.epoch = @ + 1, !.step = 0, !.images = 0,
                                  !.last = <<fit.step, fit.images>>,
                                  !.evals = @ + 1,
                                  !.log = [k \in Metrics |->
                                              Append(@[k], fit.epoch + 1)]]
            /\ \E w \in Weights : model' = Net(w, TRUE, fit.epoch + 1)
            /\ UNCHANGED <<pc, cell>>
       ELSE /\ pc' = "idle"
            /\ cell' = Then(7, FALSE)
            /\ UNCHANGED <<fit, model>>
    /\ UNCHANGED <<ds, bound, data_vars, fitted, artifact, infer_vars, p_file,
                   p_image, p_prediction, p_result, datagen, img_iter,
                   batch_x, history>>

\* After the last epoch model.fit returns and history is bound.
T_FitReturn ==
    /\ pc = "fit"
    /\ fit.epoch = Epochs
    /\ pc' = "idle"
    /\ history' = [epochs |-> fit.epoch, steps |-> fit.last[1],
                   images |-> fit.last[2], log |-> fit.log]
    /\ bound' = bound \cup {"history"}
    /\ cell' = Then(7, TRUE)
    /\ UNCHANGED <<ds, data_vars, model, fitted, artifact, infer_vars, p_file,
                   p_image, p_prediction, p_result, datagen, img_iter,
                   batch_x, fit>>

NextT ==
    \/ T_Datagen
    \/ T_Flow
    \/ T_DatagenFit
    \/ T_Compile
    \/ T_Fit
    \/ T_FitStep
    \/ T_FitEpochEnd
    \/ T_FitReturn

(***************************************************************************)
(* Part C, one action per code cell.                                       *)
(***************************************************************************)
\* model = keras.models.load_model('asl_model')
C_Load ==
    /\ AtCell(9)
    /\ pc = "idle"
    /\ IF artifact # <<>>
       THEN model' = artifact[1] /\ bound' = bound \cup {"model"}
       ELSE UNCHANGED <<model, bound>>
    /\ cell' = Then(9, artifact # <<>>)
    /\ UNCHANGED <<ds, train_vars,
                   data_vars, fitted, artifact, infer_vars, call_vars>>

\* image = load_and_scale_image('data/asl_images/b.png')
C_LoadImage ==
    /\ AtCell(10)
    /\ pc = "idle"
    /\ \E f \in {FileB, NoFile} :
        /\ IF f.ok
           THEN /\ image' = LoadImg(f)
                /\ image_is_pil' = TRUE
                /\ bound' = bound \cup {"image"}
           ELSE UNCHANGED <<image, image_is_pil, bound>>
        /\ cell' = Then(10, f.ok)
    /\ UNCHANGED <<ds, train_vars,
                   data_vars, model, fitted, artifact, prediction,
                   alphabet, call_vars>>

\* image = image_utils.img_to_array(image)
C_ToArray ==
    /\ AtCell(11)
    /\ pc = "idle"
    /\ "image" \in bound
    /\ IF ImgToArrayOk(image)
       THEN image' = ImgToArray(image) /\ image_is_pil' = FALSE
       ELSE UNCHANGED <<image, image_is_pil>>
    /\ cell' = Then(11, ImgToArrayOk(image))
    /\ UNCHANGED <<ds, train_vars,
                   bound, data_vars, model, fitted, artifact, prediction,
                   alphabet, call_vars>>

\* image = image.reshape(1,28,28,1); a PIL image has no reshape.
C_ReshapeImage ==
    /\ AtCell(12)
    /\ pc = "idle"
    /\ "image" \in bound
    /\ IF ~image_is_pil /\ ReshapeOk(image, Images(1))
       THEN image' = Reshape(image, Images(1))
       ELSE UNCHANGED image
    /\ cell' = Then(12, ~image_is_pil /\ ReshapeOk(image, Images(1)))
    /\ UNCHANGED <<ds, train_vars, bound, data_vars, model, fitted, artifact,
                   image_is_pil, prediction, alphabet, call_vars>>

\* image = image / 255; a PIL image cannot be divided.
C_NormalizeImage ==
    /\ AtCell(13)
    /\ pc = "idle"
    /\ "image" \in bound
    /\ image.den < Pow(PixelScale, MaxDivisions)
    /\ IF ~image_is_pil
       THEN image' = Div(image, PixelScale)
       ELSE UNCHANGED image
    /\ cell' = Then(13, ~image_is_pil)
    /\ UNCHANGED <<ds, train_vars, bound, data_vars, model, fitted, artifact,
                   image_is_pil, prediction, alphabet, call_vars>>

\* prediction = model.predict(image)
C_Predict ==
    /\ AtCell(14)
    /\ pc = "idle"
    /\ {"model", "image"} \subseteq bound
    /\ IF ~image_is_pil /\ IsImages(image)
       THEN /\ prediction' = Forward(model.w, image)
            /\ bound' = bound \cup {"prediction"}
       ELSE UNCHANGED <<prediction, bound>>
    /\ cell' = Then(14, ~image_is_pil /\ IsImages(image))
    /\ UNCHANGED <<ds, train_vars, data_vars, model, fitted, artifact, image,
                   image_is_pil, alphabet, call_vars>>

\* alphabet = "abcdefghiklmnopqrstuvwxy"
C_Alphabet ==
    /\ AtCell(15)
    /\ pc = "idle"
    /\ alphabet' = Alphabet
    /\ bound' = bound \cup {"alphabet"}
    /\ cell' = Then(15, TRUE)
    /\ UNCHANGED <<ds, train_vars, data_vars, model, fitted, artifact, image,
                   image_is_pil, prediction, call_vars>>

(***************************************************************************)
(* predict_letter(file_path), one action per statement.  pc names the      *)
(* statement that runs next; "raised" and "returned" end the call.         *)
(***************************************************************************)
\* The call: predict_letter("data/asl_images/b.png"), or any other path.
P_Call ==
    /\ AtCell(16) \/ AtCell(17)
    /\ pc = "idle"
    /\ {"model", "alphabet"} \subseteq bound
    /\ \E f \in Files : p_file' = f
    /\ pc' = "show_image"
    /\ UNCHANGED <<ds, train_vars, cell,
                   bound, data_vars, model, fitted, artifact, infer_vars,
                   p_image, p_prediction, p_result>>

\* A show_image that swallows the failure of imread.
P_ShowImageQuiet ==
    /\ pc = "show_image"
    /\ pc' = "load"
    /\ UNCHANGED <<ds, train_vars, cell,
                   bound, data_vars, model, fitted, artifact, infer_vars,
                   p_file, p_image, p_prediction, p_result>>

\* show_image(file_path): mpimg.imread(image_path); plt.imshow(...)
P_ShowImage ==
    /\ pc = "show_image"
    /\ pc' = IF p_file.ok THEN "load" ELSE "raised"
    /\ UNCHANGED <<ds, train_vars, cell,
                   bound, data_vars, model, fitted, artifact, infer_vars,
                   p_file, p_image, p_prediction, p_result>>

\* image = load_and_scale_image(file_path)
P_Load ==
    /\ pc = "load"
    /\ IF p_file.ok
       THEN p_image' = LoadImg(p_file) /\ pc' = "to_array"
       ELSE UNCHANGED p_image /\ pc' = "raised"
    /\ UNCHANGED <<ds, train_vars, cell,
                   bound, data_vars, model, fitted, artifact, infer_vars,
                   p_file, p_prediction, p_result>>

\* image = image_utils.img_to_array(image)
P_ToArray ==
    /\ pc = "to_array"
    /\ IF ImgToArrayOk(p_image)
       THEN p_image' = ImgToArray(p_image) /\ pc' = "reshape"
       ELSE UNCHANGED p_image /\ pc' = "raised"
    /\ UNCHANGED <<ds, train_vars, cell,
                   bound, data_vars, model, fitted, artifact, infer_vars,
                   p_file, p_prediction, p_result>>

\* image = image.reshape(1,28,28,1)
P_Reshape ==
    /\ pc = "reshape"
    /\ IF ReshapeOk(p_image, Images(1))
       THEN p_image' = Reshape(p_image, Images(1)) /\ pc' = "normalize"
       ELSE UNCHANGED p_image /\ pc' = "raised"
    /\ UNCHANGED <<ds, train_vars, cell,
                   bound, data_vars, model, fitted, artifact, infer_vars,
                   p_file, p_prediction, p_result>>

\* A predict_letter that forgets to normalize.
P_NormalizeSkipped ==
    /\ pc = "normalize"
    /\ pc' = "predict"
    /\ UNCHANGED <<ds, train_vars, cell,
                   bound, data_vars, model, fitted, artifact, infer_vars,
                   p_file, p_image, p_prediction, p_result>>

\* A predict_letter that normalizes by 256.
P_NormalizeBy256 ==
    /\ pc = "normalize"
    /\ p_image' = Div(p_image, PixelScale + 1)
    /\ pc' = "predict"
    /\ UNCHANGED <<ds, train_vars, cell,
                   bound, data_vars, model, fitted, artifact, infer_vars,
                   p_file, p_prediction, p_result>>

\* image = image/255
P_Normalize ==
    /\ pc = "normalize"
    /\ p_image' = Div(p_image, PixelScale)
    /\ pc' = "predict"
    /\ UNCHANGED <<ds, train_vars, cell,
                   bound, data_vars, model, fitted, artifact, infer_vars,
                   p_file, p_prediction, p_result>>

\* A predict that goes on training the network with the image it is given.
P_PredictStateful ==
    /\ pc = "predict"
    /\ IF IsImages(p_image)
       THEN p_prediction' = Forward(model.w, p_image) /\ pc' = "lookup"
       ELSE UNCHANGED p_prediction /\ pc' = "raised"
    /\ model' = [model EXCEPT !.w = (@ % MaxWeight) + 1]
    /\ UNCHANGED <<ds, train_vars, cell,
                   bound, data_vars, fitted, artifact, infer_vars,
                   p_file, p_image, p_result>>

\* prediction = model.predict(image)
P_Predict ==
    /\ pc = "predict"
    /\ IF IsImages(p_image)
       THEN p_prediction' = Forward(model.w, p_image) /\ pc' = "lookup"
       ELSE UNCHANGED p_prediction /\ pc' = "raised"
    /\ UNCHANGED <<ds, train_vars, cell,
                   bound, data_vars, model, fitted, artifact, infer_vars,
                   p_file, p_image, p_result>>

\* predicted_letter = alphabet[np.argmax(prediction)]; IndexError past the
\* end of the string.
P_Lookup ==
    /\ pc = "lookup"
    /\ IF ArgMax(p_prediction) < Len(alphabet)
       THEN p_result' = alphabet[ArgMax(p_prediction) + 1] /\ pc' = "returned"
       ELSE UNCHANGED p_result /\ pc' = "raised"
    /\ UNCHANGED <<ds, train_vars, cell,
                   bound, data_vars, model, fitted, artifact, infer_vars,
                   p_file, p_image, p_prediction>>

\* return predicted_letter, or the exception reaches the cell: the call
\* ends and its locals are gone.
P_End ==
    /\ pc \in {"returned", "raised"}
    /\ pc' = "idle"
    /\ p_file' = NoFile
    /\ p_image' = NoArr
    /\ p_prediction' = NoArr
    /\ p_result' = ""
    /\ cell' = Then(cell, pc = "returned")
    /\ UNCHANGED <<ds, train_vars,
                   bound, data_vars, model, fitted, artifact, infer_vars>>

NextC ==
    \/ C_Load
    \/ C_LoadImage
    \/ C_ToArray
    \/ C_ReshapeImage
    \/ C_NormalizeImage
    \/ C_Predict
    \/ C_Alphabet
    \/ P_Call
    \/ P_ShowImage
    \/ P_Load
    \/ P_ToArray
    \/ P_Reshape
    \/ P_Normalize
    \/ P_Predict
    \/ P_Lookup
    \/ P_End

\* The networks Part B may have left in asl_model.
SavedNets ==
    {Net(w, FALSE, 0) : w \in Weights} \cup {Net(w, TRUE, Epochs) : w \in Weights}

InitC ==
    /\ ds \in {Dataset(2, 1, ImgSize, 0, 8, 9)}
    /\ artifact \in {<<>>} \cup {<<n>> : n \in SavedNets}
    /\ InitKernel
    /\ cell = 0

SpecC == InitC /\ [][NextC]_vars

\* Parts B and C are one notebook file: the cells of both in one kernel.
NextBC == NextB \/ NextC

InitBC ==
    /\ ds = Dataset(2, 1, ImgSize, 1, 8, 9)
    /\ artifact = <<>>
    /\ InitKernel
    /\ cell = 0

SpecBC == InitBC /\ [][NextBC]_vars

(***************************************************************************)
(* Run All: the cells of a notebook from the first to the last, in a fresh *)
(* kernel.  A cell that has started runs to its end.                       *)
(***************************************************************************)
\* CSV files with at least a batch of samples.
RunDatasets ==
    Datasets
    \cup {Dataset(n, 1, ImgSize, s, 8, 9) :
            n \in {BatchSize, BatchSize + 1, 2 * BatchSize + 3}, s \in {0, MaxSeed}}

\* The files of Part A, and a training file of as many rows as there are
\* classes.
RunDatasetsA == Datasets \cup {Dataset(NumClasses, 1, ImgSize, 2, 0, 0)}

InitRunA ==
    /\ ds \in RunDatasetsA
    /\ artifact = <<>>
    /\ InitKernel
    /\ cell = 1

SpecRunA == InitRunA /\ [][NextA]_vars

NextRun == NextB \/ NextT \/ NextC

InitRun ==
    /\ ds \in RunDatasets
    /\ artifact \in {<<>>} \cup {<<n>> : n \in SavedNets}
    /\ InitKernel
    /\ cell = 1

SpecRun == InitRun /\ [][NextRun]_vars /\ WF_vars(NextRun)

(***************************************************************************)
(* The claims.                                                             *)
(***************************************************************************)
Range(f) == {f[i] : i \in DOMAIN f}

\* Row r (1-based) of a two-dimensional array, as an array of its own.
Row(a, r) ==
    Arr(<<a.shape[2]>>,
        Lit([k \in 1..a.shape[2] |-> At(a, (r - 1) * a.shape[2] + k)]),
        a.den)

\* The statements of predict_letter in the order of the claim, preceded by
\* the display of the image.
StepOrder ==
    <<"idle", "show_image", "load", "to_array", "reshape", "normalize",
      "predict", "lookup", "returned">>

StepAllowed(from, to) ==
    \/ \E i \in 1..(Len(StepOrder) - 1) : from = StepOrder[i] /\ to = StepOrder[i + 1]
    \/ from \in Range(StepOrder) \ {"idle", "returned"} /\ to = "raised"
    \/ from \in {"returned", "raised"} /\ to = "idle"

\* C1: in every execution of predict_letter the statements run in the
\* order load, convert to an array, reshape to (1,28,28,1), divide by 255,
\* forward pass, arg-max and alphabet lookup, each only after the previous
\* one succeeded, and the forward pass is only ever given the loaded image
\* reshaped to (1,28,28,1) and divided by 255 exactly once.
C1_StepsInOrder ==
    [][/\ pc' # pc => StepAllowed(pc, pc')
       /\ pc = "predict" /\ pc' = "lookup" =>
            /\ p_image = Div(Reshape(ImgToArray(LoadImg(p_file)), Images(1)),
                             PixelScale)
            /\ p_image.shape = Images(1)
            /\ p_image.den = PixelScale]_vars

C1_Witness == pc = "returned" /\ p_file.ok /\ p_result # ""

\* The 26 lowercase letters.
Letters ==
    <<"a", "b", "c", "d", "e", "f", "g", "h", "i", "j", "k", "l", "m", "n",
      "o", "p", "q", "r", "s", "t", "u", "v", "w", "x", "y", "z">>

\* C2: the index-to-letter mapping used by inference is a bijection from
\* 0..23 onto the letters a..y without j, in alphabetical order: 0 maps to
\* a, 8 to i, 9 to k and 23 to y; the letter predict_letter returns is the
\* one this mapping gives for the arg-max index.
C2_AlphabetBijection ==
    "alphabet" \in bound =>
        /\ DOMAIN alphabet = 1..NumClasses
        /\ \A i \in 0..(NumClasses - 1) :
              alphabet[i + 1] = Letters[i + 1 + (IF i >= 9 THEN 1 ELSE 0)]
        /\ \A i, j \in 1..NumClasses : alphabet[i] = alphabet[j] => i = j
        /\ Range(alphabet) = Range(Letters) \ {"j", "z"}
        /\ alphabet[0 + 1] = "a" /\ alphabet[8 + 1] = "i"
        /\ alphabet[9 + 1] = "k" /\ alphabet[23 + 1] = "y"
        /\ pc = "returned" =>
              p_result = Letters[ArgMax(p_prediction) + 1
                                 + (IF ArgMax(p_prediction) >= 9 THEN 1 ELSE 0)]

C2_Witness == pc = "returned" /\ ArgMax(p_prediction) >= 9

\* C3 (as claimed): whatever cells are executed and however often, pixel
\* data is never divided by 255 more than once, and the images a fit
\* trains on have been divided exactly once.
C3_DividedExactlyOnce ==
    /\ x_train.den \in {1, PixelScale}
    /\ x_valid.den \in {1, PixelScale}
    /\ fitted[2] \in {0, PixelScale}

\* C4 (as claimed): labels that are already one-hot encoded are never
\* encoded a second time.
C4_NeverEncodedTwice == Rank(y_train) <= 2 /\ Rank(y_valid) <= 2

\* C5 (as claimed): a label outside 0..23 makes the encoding fail, so
\* labels that hold one are never turned into indicator vectors.
C5_OutOfRangeRejected ==
    "y_train" \in bound /\ ~(ds.lab \in 0..(NumClasses - 1)) => Rank(y_train) = 1

\* C6 (as claimed): pixel data is only ever reshaped to 28x28x1 images
\* when each sample's row has exactly 784 values, one image per sample.
C6_ReshapeNeeds784 ==
    "x_train" \in bound /\ IsImages(x_train) =>
        Width(x_train.buf) = ImgSize /\ x_train.shape[1] = ds.n

\* The position of the single 1 of a vector of zeros and one 1, -1 for
\* any other vector.
HotIndex(v) ==
    IF /\ Cardinality({k \in 1..Size(v) : At(v, k) = 1}) = 1
       /\ Cardinality({k \in 1..Size(v) : At(v, k) = 0}) = Size(v) - 1
    THEN (CHOOSE k \in 1..Size(v) : At(v, k) = 1) - 1
    ELSE -1

\* Labels read from a file whose labels are all in 0..23 and encoded once.
Encoded(y, first, rows) ==
    /\ first \in 0..(NumClasses - 1)
    /\ y.shape = <<rows, NumClasses>>

\* C7: for every label L in 0..23 the one-hot encoding of width 24 has
\* exactly one 1, at index L, and 23 zeros, and its arg-max is L.
C7_OneHot ==
    /\ "y_train" \in bound /\ Encoded(y_train, ds.lab, ds.n) =>
          \A r \in 1..ds.n :
              /\ Size(Row(y_train, r)) = NumClasses
              /\ HotIndex(Row(y_train, r)) = RowLabel(ds.lab, r)
              /\ ArgMax(Row(y_train, r)) = RowLabel(ds.lab, r)
    /\ "y_valid" \in bound /\ Encoded(y_valid, ds.vlab, ds.m) =>
          \A r \in 1..ds.m :
              /\ Size(Row(y_valid, r)) = NumClasses
              /\ HotIndex(Row(y_valid, r)) = RowLabel(ds.vlab, r)
              /\ ArgMax(Row(y_valid, r)) = RowLabel(ds.vlab, r)

C7_Witness ==
    /\ Encoded(y_train, ds.lab, ds.n)
    /\ {RowLabel(ds.lab, r) : r \in 1..ds.n} = 0..(NumClasses - 1)

\* The indices (0-based) at which a vector holds its largest value.
MaxIndices(v) ==
    {i \in 0..(Size(v) - 1) : \A j \in 0..(Size(v) - 1) : At(v, j + 1) <= At(v, i + 1)}

Lowest(S) == CHOOSE i \in S : \A j \in S : i <= j

\* C8: when several of the 24 output probabilities are equal and maximal,
\* predict_letter returns the letter of the lowest of their indices.
C8_FirstMaxWins ==
    pc = "returned" => p_result = alphabet[Lowest(MaxIndices(p_prediction)) + 1]

C8_Witness ==
    /\ pc = "returned"
    /\ Cardinality(MaxIndices(p_prediction)) = 2
    /\ Lowest(MaxIndices(p_prediction)) > 0

\* C9: for a readable image and a loaded model predict_letter does not
\* raise: the arg-max index is within 0..23, and the call returns exactly
\* one character, one of the 24 of the alphabet string.
C9_ReturnsALetter ==
    /\ pc = "raised" => ~p_file.ok
    /\ pc \in {"lookup", "returned"} =>
          /\ Size(p_prediction) = NumClasses
          /\ ArgMax(p_prediction) \in 0..(NumClasses - 1)
    /\ pc = "returned" =>
          Cardinality({i \in 1..Len(Alphabet) : Alphabet[i] = p_result}) = 1

C9_Witness == pc = "returned" /\ p_file = ImageFile(TRUE, ImgSide, 0)

\* The 784 intensities of an image file are those of row r of the
\* training file.
SameIntensities(f, d, r) ==
    /\ f.ok
    /\ f.side = ImgSide
    /\ d.len = ImgSize
    /\ LET raster == LoadImg(f).buf
           matrix == Values(DelLabel(TrainCsv(d))).buf
       IN \A k \in 1..ImgSize :
              Elem(raster, k) = Elem(matrix, (r - 1) * ImgSize + k)

\* Image r of a batch equals the single image of another batch, value for
\* value and position for position.
SameTensor(batch, r, one) ==
    /\ IsImages(batch)
    /\ one.shape = Images(1)
    /\ \A k \in 1..ImgSize :
          At(batch, (r - 1) * ImgSize + k) * one.den = At(one, k) * batch.den

InUnit(a) == \A k \in 1..Size(a) : 0 <= At(a, k) /\ At(a, k) <= a.den

\* C11: once the normalize cell and then the reshape cell of Part A have
\* run, the training and the validation data are 28x28x1 grids in which
\* every value lies in [0,1].
C11_UnitRange ==
    cell > 6 =>
        /\ IsImages(x_train) /\ InUnit(x_train)
        /\ IsImages(x_valid) /\ InUnit(x_valid)

C11_Witness ==
    /\ cell > 6
    /\ \E k \in 1..Size(x_train) : At(x_train, k) = x_train.den
    /\ \E k \in 1..Size(x_train) : At(x_train, k) = 0
    /\ \E k \in 1..Size(x_valid) : 0 < At(x_valid, k) /\ At(x_valid, k) < x_valid.den

\* What the network is given for an image file.
Input(f) == Div(Reshape(ImgToArray(LoadImg(f)), Images(1)), PixelScale)

\* Two networks give the same prediction for every readable image.
SamePredictions(m1, m2) ==
    \A f \in Files : f.ok => Forward(m1.w, Input(f)) = Forward(m2.w, Input(f))

C13_StageOrder ==
    [][/\ artifact' # artifact =>
            /\ pc = "idle" /\ "history" \in bound /\ history.epochs = Epochs
            /\ model.epochs = Epochs
            /\ artifact' = <<model>>
       /\ cell = 9 /\ cell' # cell =>
            /\ artifact = <<model>> /\ artifact[1].epochs = Epochs
            /\ model' = artifact[1]
       /\ (prediction' # prediction \/ (pc = "predict" /\ pc' = "lookup")) =>
            /\ cell > 9
            /\ model = artifact[1]
            /\ model.epochs = Epochs]_vars

C13_Witness ==
    /\ cell = 17
    /\ pc = "returned"
    /\ "prediction" \in bound
    /\ model.epochs = Epochs
    /\ artifact = <<model>>

\* C14: a training that has started ends, after exactly 20 epochs; no
\* epoch draws more batches than steps_per_epoch allows.
C14_TrainingEnds ==
    /\ [](pc = "fit" =>
            /\ fit.epoch <= Epochs
            /\ fit.step > 0 => MoreSteps(fit.step - 1, fit.len))
    /\ [](cell > 7 => history.epochs = Epochs /\ model.epochs = Epochs)
    /\ (pc = "fit") ~> (pc = "idle" /\ cell = 8)

C14_Witness ==
    /\ pc = "fit"
    /\ fit.epoch = Epochs - 1
    /\ fit.step = 3
    /\ ~MoreSteps(fit.step, fit.len)

\* A call of predict_letter is under way.
InCall == pc \notin {"idle", "fit"}

\* C15: a call of predict_letter with an image that cannot be read fails at
\* its first step: the failure reaches the caller, no forward pass is made,
\* no character is returned and no step is tried again.
C15_FailsAtOnce ==
    [][(InCall /\ ~p_file.ok) =>
          /\ \/ pc = "show_image" /\ pc' = "raised"
             \/ pc = "raised" /\ pc' = "idle"
          /\ p_prediction = NoArr /\ p_prediction' = NoArr
          /\ p_result = "" /\ p_result' = ""
          /\ prediction' = prediction]_vars

C15_Witness == pc = "raised" /\ ~p_file.ok /\ p_image = NoArr

\* C16: the character a call returns is a function of the image and of the
\* loaded model, and no step of a call changes the model, the saved
\* artifact or the alphabet; so the same image gives the same character
\* whatever calls came before.
C16_PureCall ==
    /\ [][(InCall \/ InCall') =>
            model' = model /\ alphabet' = alphabet /\ artifact' = artifact]_vars
    /\ [](pc = "returned" =>
            p_result = Alphabet[ArgMax(Forward(model.w, Input(p_file))) + 1])

C16_Witness ==
    /\ cell = 17
    /\ pc = "returned"
    /\ p_file.side = 2 * ImgSide
    /\ p_result \in Range(Letters)

\* The label array is the label column of the file of the given rows, seed
\* and first label, in row order; the pixel matrix is the other columns of
\* the same file, unchanged and in place, row by row.
Separated(x, y, rows, len, seed, lab) ==
    /\ y.shape = <<rows>> /\ y.den = 1
    /\ \A r \in 1..rows : At(y, r) = RowLabel(lab, r)
    /\ x.shape = <<rows, len>> /\ x.den = 1
    /\ \A r \in 1..rows : \A c \in 1..len :
          At(x, (r - 1) * len + c) = Pixel(seed + r - 1, c)

\* C17: once the label cell and the values cell of Part A have run, the
\* label arrays are the label columns in row order and the pixel matrices
\* are the remaining columns, unchanged, without the label column: row i
\* of the matrix belongs to label i.
C17_ColumnSeparation ==
    cell = 4 =>
        /\ Separated(x_train, y_train, ds.n, ds.len, ds.seed, ds.lab)
        /\ Separated(x_valid, y_valid, ds.m, ds.len, ds.seed + ds.n, ds.vlab)

C17_Witness ==
    /\ cell = 4
    /\ ds.n > 1
    /\ At(y_train, 1) # At(y_train, 2)
    /\ At(x_train, 1) # At(x_train, ds.len + 1)
    /\ At(x_train, 1) # At(x_valid, 1)

\* The images of the batches that the steps lo..hi of an epoch draw from a
\* training set of n images; a step the loop does not run draws none.
RECURSIVE DrawnIn(_, _, _)
DrawnIn(lo, hi, n) ==
    IF lo > hi THEN 0
    ELSE IF lo = hi
         THEN IF MoreSteps(lo, n) THEN BatchLen(lo, n) ELSE 0
         ELSE LET mid == (lo + hi) \div 2
              IN DrawnIn(lo, mid, n) + DrawnIn(mid + 1, hi, n)

\* The images of an epoch: it has no more steps than images.
Drawn(n) == DrawnIn(0, n, n)

\* The images of an epoch over the data set of the notebooks.
DrawnOfTrainSize == Drawn(TrainSize)

\* The images of an epoch are steps_per_epoch times batch_size, and they
\* are as many as the training set has.
WholeSet(images, len) ==
    /\ StepsPerEpoch(len)[1] * BatchSize = images * StepsPerEpoch(len)[2]
    /\ images = len

\* C19: with steps_per_epoch = len(x_train) / batch_size, every epoch of the
\* training draws steps_per_epoch * batch_size images, as many as the
\* training set has; for the 27,455 images of the data set that is 857
\* batches of 32 and one of 31.
C19_EpochIsTrainingSet ==
    /\ WholeSet(DrawnOfTrainSize, TrainSize)
    /\ Batches(TrainSize) = 858 /\ BatchLen(857, TrainSize) = 31
    /\ (pc = "fit" /\ fit.epoch > 0) =>
          /\ fit.len = x_train.shape[1]
          /\ WholeSet(fit.last[2], fit.len)
          /\ fit.last[1] = Batches(fit.len)
    /\ "history" \in bound =>
          /\ WholeSet(history.images, x_train.shape[1])
          /\ history.steps = Batches(x_train.shape[1])

C19_Witness ==
    /\ "history" \in bound
    /\ history.steps = 3
    /\ history.images = 2 * BatchSize + 3
    /\ x_train.shape[1] = history.images

\* C22 (as claimed): once the encoding cell of Part A has run on the raw
\* labels, y_train and y_valid are both one-hot encoded with width 24,
\* whatever the size of the training set.
C22_GuardNeverSkips ==
    cell > 5 =>
        /\ y_train.shape = <<ds.n, NumClasses>>
        /\ y_valid.shape = <<ds.m, NumClasses>>

\* The positions of the layers of a kind in a model.
Where(stack, kind) ==
    SelectSeq([i \in 1..Len(stack) |-> i], LAMBDA i : stack[i].kind = kind)

\* The shape a batch has when it enters layer i of a model.
InShape(stack, s, i) == IF i = 1 THEN s ELSE OutShapes(stack, s)[i - 1]

\* A batch of n images through a model: three poolings, after which the
\* images are 14, 7 and 4 pixels wide and high; convolutions that keep the
\* width and the height; a flattened vector of 4 * 4 * 25 = 400 entries
\* for the dense layer of 512 units; 24 outputs.
ShapeChain(stack, n) ==
    LET out == OutShapes(stack, Images(n))
        pools == Where(stack, "MaxPool2D")
        flat == Where(stack, "Flatten")
    IN /\ ImgSide = 28
       /\ [k \in 1..Len(pools) |-> SubSeq(out[pools[k]], 2, 3)]
             = <<(<<14, 14>>), (<<7, 7>>), (<<4, 4>>)>>
       /\ \A i \in Range(Where(stack, "Conv2D")) :
             SubSeq(out[i], 2, 3) = SubSeq(InShape(stack, Images(n), i), 2, 3)
       /\ Len(flat) = 1
       /\ InShape(stack, Images(n), flat[1]) = <<n, 4, 4, 25>>
       /\ out[flat[1]] = <<n, 400>>
       /\ stack[flat[1] + 1] = Dense(512)
       /\ out[Len(stack)] = <<n, 24>>

\* The two models, for batches of one to three images.
ShapeChains ==
    \A n \in 1..3 : ShapeChain(StackA, n) /\ ShapeChain(StackB, n)

\* C23: in the models of both notebooks a 28x28x1 input is 14, 7 and 4
\* pixels wide and high after the three poolings, the convolutions keep
\* its size, the dense layer of 512 units is given 400 entries and the
\* output has 24; the training batches and every image that is predicted
\* go through the model of Part B with these shapes.
C23_LayerShapes ==
    /\ ShapeChains
    /\ pc = "fit" =>
          y_train.shape = OutShapes(StackB, x_train.shape)[Len(StackB)]
    /\ pc = "lookup" =>
          /\ p_image.shape = Images(1)
          /\ p_prediction.shape = OutShapes(StackB, p_image.shape)[Len(StackB)]
    /\ "prediction" \in bound =>
          prediction.shape = OutShapes(StackB, image.shape)[Len(StackB)]

C23_Witness ==
    /\ pc = "lookup"
    /\ OutShapes(StackB, p_image.shape)[11] = <<1, 400>>
    /\ p_prediction.shape = <<1, 24>>
    /\ model.epochs = Epochs

\* The epochs 1..n in order.
EpochOrder(n) == [e \in 1..n |-> e]

\* C21: while model.fit trains on the generator, the validation data is
\* evaluated exactly once per epoch, after all the batches of the epoch and
\* before the first batch of the next one; when the training has ended the
\* log has, for loss, accuracy, val_loss and val_accuracy, exactly one
\* entry per epoch, 20 of them, in epoch order.
C21_ValidationPerEpoch ==
    /\ [](pc = "fit" =>
            /\ fit.evals = fit.epoch
            /\ \A k \in Metrics : fit.log[k] = EpochOrder(fit.epoch))
    /\ [][(pc = "fit" /\ pc' = "fit" /\ fit' # fit) =>
            \/ /\ fit'.step = fit.step + 1
               /\ fit'.epoch = fit.epoch
               /\ fit'.evals = fit.evals
            \/ /\ fit'.evals = fit.evals + 1
               /\ fit.step = Batches(fit.len)
               /\ fit.images = fit.len
               /\ fit'.epoch = fit.epoch + 1
               /\ fit'.step = 0]_vars
    /\ []("history" \in bound =>
            /\ DOMAIN history.log = Metrics
            /\ \A k \in Metrics :
                  Len(history.log[k]) = 20 /\ history.log[k] = EpochOrder(Epochs))

C21_Witness ==
    /\ "history" \in bound
    /\ pc = "idle"
    /\ Len(history.log["val_loss"]) = 20
    /\ Len(history.log["accuracy"]) = 20
    /\ history.steps > 1

=============================================================================
